---- MODULE Spec2Model ----
(***************************************************************************)
(* The batched machine-translation-with-reinsertion pipeline of the       *)
(* course-page maintenance scripts, as one state machine.  A run is one   *)
(* invocation of one script:                                               *)
(*   complete_existing  complete_existing_course_translations.py          *)
(*   complete_arabic    complete_arabic_translations.py                    *)
(*   fix_js             fix_arabic_js_strings.py                           *)
(*   batch_visible      batch_translate_visible_nodes.py                   *)
(*   sync_source        sync_translate_from_source.py                      *)
(*   index_cards        translate_index_cards.py                           *)
(* Texts are sequences of tokens: a token is one whitespace character      *)
(* ("SP", "NL"), a quote, a separator string, or a run of letters that    *)
(* stands for a phrase body ("A", "B", "C" English prose, "x", "y" text   *)
(* in the target script).  The translation service is the environment:    *)
(* each request either raises or answers with any token sequence.         *)
(***************************************************************************)
EXTENDS Integers, Sequences, FiniteSets, TLC

\* Longest answer (in tokens) to a batch request, in a run over one file.
MaxRespLen == 3

\* Longest answer (in tokens) to a request for one phrase, in a run over one
\* file.
MaxWordLen == 2

\* Longest answer (in tokens) to any request, in a run over several files.
MaxRespLenMany == 1

Scripts == {"complete_existing", "complete_arabic", "fix_js",
            "batch_visible", "sync_source", "index_cards"}

----------------------------------------------------------------------------
(* Texts *)

EnglishWords == {"A", "B", "C"}

\* len() of one token: the separators have their real lengths, the phrase
\* bodies stand for short ("A", "C") and very long ("B") English phrases.
TokLen(t) ==
    CASE t = "A" -> 12
      [] t = "B" -> 3880
      [] t = "C" -> 20
      [] t = "x" -> 6
      [] t = "ID" -> 9
      [] t = "y" -> 7
      [] t = "<<<SYNC_SEP_A12F>>>" -> 19
      [] t = "<<<SEP_TRANSLATE_9F31>>>" -> 24
      [] t = "<<<SEP>>>" -> 9
      [] t = "<<< SEP >>>" -> 11
      [] t = "<<<sep>>>" -> 9
      [] t = "<<< sep >>>" -> 11
      [] t = "<<<SEP >>>" -> 10
      [] t = "<<< SEP>>>" -> 10
      [] t = "GSEP" -> 5
      [] t = "gsep" -> 5
      [] OTHER -> 1

RECURSIVE TextLen(_)
TextLen(s) ==
    IF s = <<>> THEN 0
    ELSE IF Len(s) = 1 THEN TokLen(s[1])
    ELSE LET half == Len(s) \div 2
         IN TextLen(SubSeq(s, 1, half)) + TextLen(SubSeq(s, half + 1, Len(s)))

IsWs(t) == t \in {"SP", "NL"}

RECURSIVE LStrip(_)
LStrip(s) ==
    IF s = <<>> THEN <<>>
    ELSE IF IsWs(Head(s)) THEN LStrip(Tail(s)) ELSE s

RECURSIVE RStrip(_)
RStrip(s) ==
    IF s = <<>> THEN <<>>
    ELSE IF IsWs(s[Len(s)]) THEN RStrip(SubSeq(s, 1, Len(s) - 1)) ELSE s

\* str.strip()
Strip(s) == RStrip(LStrip(s))

\* re.sub(r"\s+", " ", text)
RECURSIVE Collapse(_)
Collapse(s) ==
    IF s = <<>> THEN <<>>
    ELSE IF IsWs(Head(s)) THEN <<"SP">> \o Collapse(LStrip(s))
    ELSE <<Head(s)>> \o Collapse(Tail(s))

\* .replace("’", "'").replace("‘", "'")
FoldQuotes(s) ==
    [k \in 1..Len(s) |-> IF s[k] \in {"RSQUO", "LSQUO"} THEN "'" ELSE s[k]]

\* The scripts whose normalize folds smart quotes before collapsing.
FoldsQuotes(sc) == sc \in {"complete_existing", "batch_visible", "sync_source"}

normalize(sc, s) ==
    Strip(Collapse(IF FoldsQuotes(sc) THEN FoldQuotes(s) ELSE s))

\* str.split(sep) for a separator that is one token: the parts between the
\* occurrences, empty parts included, always at least one part.
RECURSIVE SplitFrom(_, _, _)
SplitFrom(s, sepTok, acc) ==
    IF s = <<>> THEN <<acc>>
    ELSE IF Head(s) = sepTok
         THEN <<acc>> \o SplitFrom(Tail(s), sepTok, <<>>)
         ELSE SplitFrom(Tail(s), sepTok, Append(acc, Head(s)))

split(s, sepTok) == SplitFrom(s, sepTok, <<>>)

\* sep.join(chunk)
RECURSIVE join(_, _)
join(sepText, chunkSeq) ==
    IF chunkSeq = <<>> THEN <<>>
    ELSE IF Len(chunkSeq) = 1 THEN Head(chunkSeq)
    ELSE Head(chunkSeq) \o sepText \o join(sepText, Tail(chunkSeq))

\* raw[: len(raw) - len(raw.lstrip())] and raw[len(raw.rstrip()):]
leading(raw) == SubSeq(raw, 1, Len(raw) - Len(LStrip(raw)))
trailing(raw) == SubSeq(raw, Len(RStrip(raw)) + 1, Len(raw))

----------------------------------------------------------------------------
(* Per-script parameters of the batcher and the translation client *)

\* sep / SEP: the delimiter the phrases of a batch are joined with.
sep(sc) ==
    CASE sc \in {"complete_existing", "sync_source"} -> <<"<<<SYNC_SEP_A12F>>>">>
      [] sc = "batch_visible" -> <<"<<<SEP_TRANSLATE_9F31>>>">>
      [] OTHER -> <<"SP", "<<<SEP>>>", "SP">>

\* sep_variants: the delimiter spellings tried, in order, on the answer.
\* "GSEP"/"gsep" are the guillemet spellings.
sep_variants(sc) ==
    CASE sc = "complete_arabic" ->
           <<"<<<SEP>>>", "<<< SEP >>>", "<<<sep>>>", "<<< sep >>>",
             "GSEP", "gsep", "<<<SEP >>>", "<<< SEP>>>", "<<<SEP>>>">>
      [] sc = "fix_js" ->
           <<"<<<SEP>>>", "<<< SEP >>>", "<<<sep>>>", "<<< sep >>>",
             "GSEP", "<<<SEP >>>", "<<< SEP>>>", "<<<SEP>>>">>
      [] sc = "batch_visible" -> <<"<<<SEP_TRANSLATE_9F31>>>">>
      [] OTHER -> <<"<<<SYNC_SEP_A12F>>>">>

\* Maximum item count and character length of one batch.
MaxItems(sc) ==
    CASE sc = "fix_js" -> 20
      [] sc = "complete_arabic" -> 25
      [] sc = "batch_visible" -> 35
      [] OTHER -> 40

MaxChars(sc) ==
    CASE sc = "fix_js" -> 3000
      [] sc = "complete_arabic" -> 3500
      [] sc = "batch_visible" -> 3800
      [] OTHER -> 3900

\* MaxAttempts with one more attempt per call in the retrying scripts.
MaxAttemptsOneMore(sc) ==
    CASE sc = "index_cards" -> 5
      [] sc \in {"batch_visible", "sync_source"} -> 1
      [] OTHER -> 4

\* range(3) / range(4): the attempts of one translate_google call.  The
\* batch and sync scripts' translate_google is a single bare request.
MaxAttempts(sc) ==
    CASE sc = "index_cards" -> 4
      [] sc \in {"batch_visible", "sync_source"} -> 1
      [] OTHER -> 3

\* time.sleep after a raising attempt, in hundredths of a second.
Backoff(sc, attempt) ==
    CASE sc = "complete_existing" -> 25 * (attempt + 1)
      [] sc = "index_cards" -> 40 * (attempt + 1)
      [] OTHER -> 30 * (attempt + 1)

\* Whether translate_google raises when every attempt failed (the others
\* return the original text).
RaisesOnFailure(sc) == sc \in {"complete_existing", "index_cards"}

\* Whether the script keeps one cache for the whole run (batch_visible
\* builds a fresh mapping for every file).
RunCache(sc) == sc # "batch_visible"

\* Whether main validates the requested languages / files against what
\* exists and aborts on a mismatch (complete_arabic and fix_js silently drop
\* the names that match nothing).
ChecksSelection(sc) == sc \notin {"complete_arabic", "fix_js"}

----------------------------------------------------------------------------
(* Documents.  A document is the sequence of its edit locations: text      *)
(* nodes, attribute values, script string literals (quotes included) and   *)
(* the residue of script code the integrity guard looks at.                *)

Files == {"f1", "f2"}

Node(kind, raw) == [kind |-> kind, raw |-> raw]

\* The body of a quoted literal: m.group("body").
Body(raw) == SubSeq(raw, 2, Len(raw) - 1)

\* body.replace("\\n", " ").replace("\\t", " ")
DecodeLiteral(body) ==
    [k \in 1..Len(body) |-> IF body[k] \in {"\\n", "\\t"} THEN "SP" ELSE body[k]]

\* The normalized phrase of a location (stripped / candidate / decoded).
Phrase(sc, node) ==
    IF node.kind = "js" THEN normalize(sc, DecodeLiteral(Body(node.raw)))
    ELSE normalize(sc, node.raw)

\* What the classifiers count in a text, token by token: the matches of
\* WORDS_RE, the letters (ch.isalpha()), the ASCII letters, the words in
\* STOP_WORDS and in CORE_ENGLISH_WORDS.  "A", "B" and "C" are English phrases
\* with function words, "ID" is one camelCase identifier of nine letters
\* such as nextSlide, "x" and "y" are text in the target script.
Feature(what, tok) ==
    CASE tok = "A" -> (CASE what = "words" -> 3 [] what = "letters" -> 10
                         [] what = "ascii" -> 10 [] what = "stop" -> 2 [] OTHER -> 1)
      [] tok = "C" -> (CASE what = "words" -> 4 [] what = "letters" -> 17
                         [] what = "ascii" -> 17 [] what = "stop" -> 2 [] OTHER -> 1)
      [] tok = "B" -> (CASE what = "words" -> 600 [] what = "letters" -> 3200
                         [] what = "ascii" -> 3200 [] what = "stop" -> 200 [] OTHER -> 100)
      [] tok = "ID" -> (CASE what = "words" -> 1 [] what = "letters" -> 9
                          [] what = "ascii" -> 9 [] OTHER -> 0)
      [] tok \in {"x", "y"} -> (IF what = "letters" THEN TokLen(tok) ELSE 0)
      [] OTHER -> 0

RECURSIVE Tally(_, _)
Tally(what, t) ==
    IF t = <<>> THEN 0 ELSE Feature(what, Head(t)) + Tally(what, Tail(t))

\* has_arabic: some character of the target script.
has_arabic(t) == \E k \in 1..Len(t) : t[k] \in {"x", "y"}

\* is_english_like of complete_existing (min_words given) and of
\* batch_visible: enough words, nearly all letters ASCII, function words.
is_english_like(sc, t, min_words) ==
    LET words == Tally("words", t)
        letters == Tally("letters", t)
        ascii == Tally("ascii", t)
    IN IF sc = "batch_visible"
       THEN /\ TextLen(t) >= 10
            /\ words >= min_words
            /\ letters # 0
            /\ ascii * 100 >= 90 * letters
            /\ Tally("stop", t) >= 2
       ELSE /\ TextLen(t) >= 8
            /\ words >= min_words
            /\ letters # 0
            /\ ascii * 100 >= 85 * letters
            /\ IF words <= 4 THEN Tally("core", t) >= 1
               ELSE Tally("stop", t) >= 2 \/ Tally("stop", t) * 100 >= 22 * words

\* is_english_like of complete_arabic: any text that is mostly ASCII letters
\* and holds no Arabic, with or without function words.
is_english_like_ar(t) ==
    /\ TextLen(t) >= 5
    /\ Tally("words", t) >= 1
    /\ Tally("letters", t) # 0
    /\ ~has_arabic(t)
    /\ Tally("ascii", t) * 100 >= 75 * Tally("letters", t)

\* is_english_source_text of sync_source: one-word terms of four letters or
\* more are kept.
is_english_source_text(t) ==
    LET words == Tally("words", t)
        letters == Tally("letters", t)
    IN /\ TextLen(t) >= 4
       /\ words >= 1
       /\ letters # 0
       /\ Tally("ascii", t) * 100 >= 92 * letters
       /\ IF words = 1 THEN \E k \in 1..Len(t) : Feature("letters", t[k]) >= 4
          ELSE Tally("stop", t) >= 1 \/ words >= 3

is_translatable_js_stringAnyWord(t) ==
    /\ TextLen(t) >= 3
    /\ ~has_arabic(t)
    /\ Tally("words", t) >= 1

\* is_translatable_js_string of fix_js: no Arabic, not an identifier in
\* camelCase or kebab-case, not a single word that could be one, and at
\* least one ASCII word.
is_translatable_js_string(t) ==
    /\ TextLen(t) >= 3
    /\ ~has_arabic(t)
    /\ t # <<"ID">>
    /\ Tally("words", t) >= 1

\* is_safe_js_literal_candidate of complete_existing.
is_safe_js_literal_candidate(t) ==
    /\ is_english_like("complete_existing", t, 3)
    /\ Tally("core", t) >= 1
    /\ TextLen(t) <= 300

\* The test a script puts a phrase of a location of some kind to.
Translatable(sc, kind, t) ==
    CASE sc = "complete_arabic" -> is_english_like_ar(t)
      [] sc = "fix_js" -> is_translatable_js_string(t)
      [] sc = "sync_source" -> is_english_source_text(t)
      [] sc = "complete_existing" /\ kind = "js" -> is_safe_js_literal_candidate(t)
      [] sc = "complete_existing" /\ kind = "attr" -> is_english_like(sc, t, 2)
      [] OTHER -> is_english_like(sc, t, 3)

\* The texts of the English source page of sync_source.
SourcePage == {<<"A">>, <<"B">>, <<"C">>, <<"ID">>}

\* source_texts of sync_source: the source page's texts that pass the test.
source_texts == {t \in SourcePage : is_english_source_text(t)}

\* source_steps of index_cards: the English index page's elements, in order.
source_steps == << <<"A">>, <<"C">>, <<"A">> >>

\* The kind of location a script's phase walks.  complete_existing runs
\* text nodes, attributes, then script literals; fix_js script literals only.
PhaseKind(sc, phase) ==
    CASE sc = "fix_js" -> "js"
      [] sc = "complete_existing" /\ phase = 2 -> "attr"
      [] sc = "complete_existing" /\ phase = 3 -> "js"
      [] OTHER -> "text"

IsTarget(sc, phase, node) ==
    /\ node.kind = PhaseKind(sc, phase)
    /\ Translatable(sc, node.kind, Phrase(sc, node))
    /\ (sc = "sync_source" => Phrase(sc, node) \in source_texts)

\* phrases: the phrases of the phase's targets, in document order.
RECURSIVE phrases(_, _, _)
phrases(sc, phase, nodes) ==
    IF nodes = <<>> THEN <<>>
    ELSE (IF IsTarget(sc, phase, Head(nodes))
          THEN <<Phrase(sc, Head(nodes))>> ELSE <<>>)
         \o phrases(sc, phase, Tail(nodes))

Range(s) == {s[k] : k \in DOMAIN s}

\* sorted(set(...), key=len) of sync_source.  The phrases of the model's
\* documents have different lengths, so the order is the one of the lengths.
RECURSIVE InsertByLen(_, _)
InsertByLen(t, s) ==
    IF s = <<>> THEN <<t>>
    ELSE IF TextLen(t) < TextLen(Head(s)) THEN <<t>> \o s
    ELSE <<Head(s)>> \o InsertByLen(t, Tail(s))

RECURSIVE SortedSet(_, _)
SortedSet(texts, acc) ==
    IF texts = <<>> THEN acc
    ELSE SortedSet(Tail(texts),
                   IF Head(texts) \in Range(acc) THEN acc
                   ELSE InsertByLen(Head(texts), acc))

----------------------------------------------------------------------------
(* The cache and the batcher *)

NoCache == [k \in {} |-> <<>>]

\* Put forgetting every other entry.
PutForgetting(c, key, val) == [k \in {key} |-> val]

\* cache[key] = val
Put(c, key, val) ==
    [k \in DOMAIN c \cup {key} |-> IF k = key THEN val ELSE c[k]]

\* cache.get(key, default)
Get(c, key, default) == IF key \in DOMAIN c THEN c[key] ELSE default

Key(lang, text) == <<lang, text>>

\* The first loop of batch_translate: normalize, drop empty, cached and
\* repeated phrases.  batch_visible consults no cache; sync_source and
\* batch_visible take the phrases as given.
RECURSIVE UniqFrom(_, _, _, _, _)
UniqFrom(sc, lang, c, texts, acc) ==
    IF texts = <<>> THEN acc
    ELSE LET norm == sc \in {"complete_existing", "complete_arabic", "fix_js"}
             t == IF norm THEN normalize(sc, Head(texts)) ELSE Head(texts)
             skip == \/ norm /\ t = <<>>
                     \/ sc # "batch_visible" /\ Key(lang, t) \in DOMAIN c
                     \/ t \in Range(acc)
         IN IF skip THEN UniqFrom(sc, lang, c, Tail(texts), acc)
            ELSE UniqFrom(sc, lang, c, Tail(texts), Append(acc, t))

\* Uniq without the look into the cache.
UniqIgnoringCache(sc, lang, c, texts) == UniqFrom(sc, lang, NoCache, texts, <<>>)

Uniq(sc, lang, c, texts) == UniqFrom(sc, lang, c, texts, <<>>)

\* BuildChunk without the item limit.
RECURSIVE BuildChunkAnyCount(_, _, _, _, _)
BuildChunkAnyCount(sc, u, idx, ch, total) ==
    IF idx > Len(u) THEN [chunk |-> ch, i |-> idx]
    ELSE LET nxt == u[idx]
             add_len == TextLen(nxt) + (IF ch # <<>> THEN TextLen(sep(sc)) ELSE 0)
         IN IF ch # <<>> /\ total + add_len > MaxChars(sc)
            THEN [chunk |-> ch, i |-> idx]
            ELSE BuildChunkAnyCount(sc, u, idx + 1, Append(ch, nxt), total + add_len)

\* BuildChunk passing over a phrase that is longer than the limit by itself.
RECURSIVE BuildChunkDroppingLong(_, _, _, _, _)
BuildChunkDroppingLong(sc, u, idx, ch, total) ==
    IF idx > Len(u) THEN [chunk |-> ch, i |-> idx]
    ELSE LET nxt == u[idx]
             add_len == TextLen(nxt) + (IF ch # <<>> THEN TextLen(sep(sc)) ELSE 0)
         IN IF TextLen(nxt) > MaxChars(sc)
            THEN BuildChunkDroppingLong(sc, u, idx + 1, ch, total)
            ELSE IF ch # <<>> /\ (Len(ch) >= MaxItems(sc) \/ total + add_len > MaxChars(sc))
            THEN [chunk |-> ch, i |-> idx]
            ELSE BuildChunkDroppingLong(sc, u, idx + 1, Append(ch, nxt), total + add_len)

\* The inner while loop: take phrases from uniq[i] on until the batch has
\* MaxItems phrases or the next one would push the joined length over
\* MaxChars; the first phrase is always taken.
RECURSIVE BuildChunk(_, _, _, _, _)
BuildChunk(sc, u, idx, ch, total) ==
    IF idx > Len(u) THEN [chunk |-> ch, i |-> idx]
    ELSE LET nxt == u[idx]
             add_len == TextLen(nxt) + (IF ch # <<>> THEN TextLen(sep(sc)) ELSE 0)
         IN IF ch # <<>> /\ (Len(ch) >= MaxItems(sc) \/ total + add_len > MaxChars(sc))
            THEN [chunk |-> ch, i |-> idx]
            ELSE BuildChunk(sc, u, idx + 1, Append(ch, nxt), total + add_len)

\* The parts the answer splits into when some delimiter spelling gives
\* exactly n of them, in the order the script tries them; <<>> when none.
RECURSIVE TryVariants(_, _, _)
TryVariants(translated, variants, n) ==
    IF variants = <<>> THEN <<>>
    ELSE LET candidate == split(translated, Head(variants))
         IN IF Len(candidate) = n THEN candidate
            ELSE TryVariants(translated, Tail(variants), n)

SelectParts(sc, translated, n) == TryVariants(translated, sep_variants(sc), n)

\* Whether an empty part falls back to the source phrase (out if out else src).
EmptyFallsBack(sc) == sc \in {"complete_existing", "complete_arabic", "fix_js"}

\* What is stored for src when its part is tr.
StoredFor(sc, src, tr) ==
    IF EmptyFallsBack(sc) /\ Strip(tr) = <<>> THEN src ELSE Strip(tr)

\* StoreParts with the parts taken from the other end of the list.
StorePartsReversed(sc, c, lang, ch, parts) ==
    LET keys == {Key(lang, ch[n]) : n \in DOMAIN ch}
        at(k) == CHOOSE n \in DOMAIN ch : Key(lang, ch[n]) = k
    IN [k \in DOMAIN c \cup keys |->
          IF k \in keys
          THEN StoredFor(sc, ch[at(k)], parts[Len(parts) + 1 - at(k)])
          ELSE c[k]]

\* for src, tr in zip(chunk, parts): cache[(lang, src)] = ...
RECURSIVE StoreParts(_, _, _, _, _)
StoreParts(sc, c, lang, ch, parts) ==
    IF ch = <<>> \/ parts = <<>> THEN c
    ELSE StoreParts(sc, Put(c, Key(lang, Head(ch)), StoredFor(sc, Head(ch), Head(parts))),
                    lang, Tail(ch), Tail(parts))

----------------------------------------------------------------------------
(* The rewriter *)

\* escape_js_literal / escape_js: backslash and the literal's own quote get
\* a backslash; fix_js also writes newlines as escapes.
RECURSIVE escape_js(_, _, _)
escape_js(sc, text, quote) ==
    IF text = <<>> THEN <<>>
    ELSE LET t == Head(text)
             e == IF t = "\\" \/ t = quote THEN <<"\\", t>>
                  ELSE IF sc = "fix_js" /\ t = "NL" THEN <<"\\n">>
                  ELSE <<t>>
         IN e \o escape_js(sc, Tail(text), quote)

ReplacementStripped(sc, node, translated) ==
    IF node.kind = "js"
    THEN <<node.raw[1]>> \o escape_js(sc, translated, node.raw[1]) \o <<node.raw[1]>>
    ELSE translated

\* The new content of a target location given its translation, and whether
\* the location counts as changed.
Replacement(sc, node, translated) ==
    IF node.kind = "js" THEN <<node.raw[1]>> \o escape_js(sc, translated, node.raw[1]) \o <<node.raw[1]>>
    ELSE IF node.kind = "attr" THEN translated
    ELSE leading(node.raw) \o translated \o trailing(node.raw)

IsChange(sc, node, translated) ==
    CASE sc \in {"complete_arabic", "fix_js"} ->
           translated # <<>> /\ translated # Phrase(sc, node)
      [] sc = "complete_existing" /\ node.kind \in {"attr", "js"} ->
           translated # Phrase(sc, node)
      [] OTHER -> Replacement(sc, node, translated) # node.raw

RewriteByRawText(sc, phase, lang, c, node) ==
    IF IsTarget(sc, phase, node)
       /\ IsChange(sc, node, Get(c, Key(lang, node.raw), Phrase(sc, node)))
    THEN Node(node.kind, Replacement(sc, node, Get(c, Key(lang, node.raw), Phrase(sc, node))))
    ELSE node

Rewrite(sc, phase, lang, c, node) ==
    IF IsTarget(sc, phase, node)
       /\ IsChange(sc, node, Get(c, Key(lang, Phrase(sc, node)), Phrase(sc, node)))
    THEN Node(node.kind, Replacement(sc, node, Get(c, Key(lang, Phrase(sc, node)), Phrase(sc, node))))
    ELSE node

ApplyTranslations(sc, phase, lang, c, nodes) ==
    [k \in 1..Len(nodes) |-> Rewrite(sc, phase, lang, c, nodes[k])]

CountChanges(sc, phase, lang, c, nodes) ==
    Cardinality({k \in 1..Len(nodes) :
        /\ IsTarget(sc, phase, nodes[k])
        /\ IsChange(sc, nodes[k], Get(c, Key(lang, Phrase(sc, nodes[k])), Phrase(sc, nodes[k])))})

\* mask_js_strings: every string literal of the script code ("STR") is
\* blanked out before the patterns are searched.
mask_js_strings(text) ==
    [k \in 1..Len(text) |-> IF text[k] = "STR" THEN "SP" ELSE text[k]]

\* The length of the whitespace run that starts at position p.
WsRun(text, p) ==
    CHOOSE n \in 0..Len(text) :
        /\ \A m \in 0..(n - 1) : p + m <= Len(text) /\ IsWs(text[p + m])
        /\ (p + n > Len(text) \/ ~IsWs(text[p + n]))

\* (?:^|[,{]\s*)truth : a truth key at position p.
TruthKeyAt(text, p) ==
    /\ text[p] = "truth"
    /\ \/ p = 1
       \/ \E b \in 1..(p - 1) :
             /\ text[b] \in {",", "{"}
             /\ \A m \in (b + 1)..(p - 1) : IsWs(text[m])

\* The lookaheads' true\b and false\b at a position.
BooleanAt(text, p) == p <= Len(text) /\ text[p] \in {"true", "false"}

\* SUSPICIOUS_TRUTH_VALUE_RE of the guard: truth\s*:\s*(?!true\b|false\b).
\* \s* may stop anywhere in the whitespace after the colon, and the
\* lookahead is tried where it stopped.
SUSPICIOUS_TRUTH_VALUE_RE(text) ==
    \E p \in 1..Len(text) :
       /\ TruthKeyAt(text, p)
       /\ LET c == p + 1 + WsRun(text, p + 1)
          IN /\ c <= Len(text)
             /\ text[c] = ":"
             /\ \E m \in 0..WsRun(text, c + 1) : ~BooleanAt(text, c + 1 + m)

\* SUSPICIOUS_TRUTH_VALUE_RE of the linter:
\* truth\s*:\s*(?!\s*(?:true|false)\b): the lookahead skips whitespace itself.
LintTruthValueRe(text) ==
    \E p \in 1..Len(text) :
       /\ TruthKeyAt(text, p)
       /\ LET c == p + 1 + WsRun(text, p + 1)
          IN /\ c <= Len(text)
             /\ text[c] = ":"
             /\ \E m \in 0..WsRun(text, c + 1) :
                   ~BooleanAt(text, c + 1 + m + WsRun(text, c + 1 + m))

\* detect_script_translation_risks: one issue per corruption signature found
\* in the script code ("FFFD" the replacement character, "LKEY" a localized
\* object key, a truth key with a non-boolean value).
detect_script_translation_risks(nodes) ==
    LET code == {nodes[k].raw : k \in {k2 \in 1..Len(nodes) : nodes[k2].kind = "code"}}
        has(tok) == \E r \in code : tok \in Range(r)
    IN (IF has("FFFD") THEN <<"U+FFFD">> ELSE <<>>)
       \o (IF \E r \in code : "LKEY" \in Range(mask_js_strings(r))
           THEN <<"keys">> ELSE <<>>)
       \o (IF \E r \in code : SUSPICIOUS_TRUTH_VALUE_RE(mask_js_strings(r))
           THEN <<"truth">> ELSE <<>>)

\* lint_file: the linter's verdict on the truth signature.
lint_file(nodes) ==
    \E k \in 1..Len(nodes) :
       nodes[k].kind = "code" /\ LintTruthValueRe(mask_js_strings(nodes[k].raw))

----------------------------------------------------------------------------
(* State *)

VARIABLES
    script,          \* the script this run is an invocation of
    dry_run,         \* args.dry_run
    backup_enabled,  \* a non-empty --backup-dir / no --no-backup
    include_scripts, \* args.include_scripts (complete_existing)
    skip_guard,      \* args.skip_script_integrity_guard (complete_existing)
    selection_errors, \* how many requested languages / files do not exist
    files,           \* the selected files, in processing order
    langOf,          \* the language of each file (its suffix, or --lang)
    orig,            \* the content of each file when the run starts
    disk,            \* the content of each file on disk
    pc,              \* where the run is
    fidx,            \* index in files of the file being processed
    soup,            \* the parsed document of the current file
    phase,           \* 1 text nodes, 2 attributes, 3 script literals
    file_changes,    \* changes counted in the current file
    uniq, i, chunk,  \* batch_translate: the phrases to send, the cursor, the batch
    j,               \* the cursor of the fallback loop / the element loop
    batch,           \* how the current batch's request ended, and its parts
    indiv,           \* the phrases of the batch submitted individually so far
    cache,           \* the translation cache (batch_visible: the mapping out)
    tg,              \* the running translate_google call
    ret,             \* what the last translate_google call returned or raised
    backup_base,     \* whether the run's backup directory exists
    copies,          \* the backup copies made: file and copied content
    writes,          \* the target files written: file and change count
    out,             \* what the run printed
    total_changes, guard_blocks, file_errors,
    processed,       \* the files whose processing was started
    exit_code,       \* -1 while running
    lastReq,         \* the phrase keys of the request this step sent, if any
    everCached,      \* every key that has had a cache entry in this run
    gave_up,         \* every key whose translation was given up in this run
    summary,         \* the counts printed in the final summary
    pace             \* "none" before the first request, then whether the run
                     \* has slept since its last request ("slept") or not
                     \* ("requested")

cfgVars == <<script, dry_run, backup_enabled, include_scripts, skip_guard,
             selection_errors, files, langOf, orig>>
fileVars == <<fidx, soup, phase, file_changes>>
batchVars == <<uniq, i, chunk, j, batch, indiv>>
tgVars == <<tg, ret>>
diskVars == <<disk, backup_base, copies, writes>>
sumVars == <<out, total_changes, guard_blocks, file_errors, processed, exit_code>>
vars == <<cfgVars, fileVars, batchVars, tgVars, diskVars, sumVars,
          pc, cache, lastReq, everCached, gave_up, summary, pace>>

cur == files[fidx]
lang == langOf[cur]

Msg(tag, file, text) == [tag |-> tag, file |-> file, text |-> text]

NoCall == [text |-> <<>>, key |-> Key("", <<>>), attempt |-> 0, reqs |-> 0,
           waits |-> <<>>, ctx |-> "none", keys |-> {}, before |-> NoCache]
NoRet == [kind |-> "none", val |-> <<>>]
NoBatch == [status |-> "none", parts |-> <<>>]

\* What one request to the translation endpoint can produce: an exception,
\* or an answer.  The answer to a batch is any sequence of up to MaxRespLen
\* words, spaces and delimiters (the script's own spelling, and a mangled
\* one for the scripts that try several); the answer to a single phrase is
\* any sequence of up to MaxWordLen words and spaces.
RespTok(sc, batched) ==
    {"x", "SP"}
    \cup (IF batched THEN {sep_variants(sc)[1]} ELSE {})
    \cup (IF batched /\ sc \in {"complete_arabic", "fix_js"} THEN {"<<< SEP >>>"} ELSE {})

\* The longest answer of a request, by the number of files of the run.
RespLen(batched, nfiles) ==
    IF nfiles > 1 THEN MaxRespLenMany
    ELSE IF batched THEN MaxRespLen ELSE MaxWordLen

Outcomes(sc, batched, nfiles) ==
    {[exc |-> TRUE, text |-> <<>>]}
    \cup {[exc |-> FALSE, text |-> r] :
            r \in UNION {[1..n -> RespTok(sc, batched)] :
                           n \in 0..RespLen(batched, nfiles)}}

\* The documents a file can hold when the run starts.
tA == Node("text", <<"SP", "A", "SP">>)
tB == Node("text", <<"B">>)
tC == Node("text", <<"C">>)
tX == Node("text", <<"x">>)
tW == Node("text", <<"A", "NL", "C">>)
aC == Node("attr", <<"C">>)
jA == Node("js", <<"'", "A", "'">>)
jB == Node("js", <<"'", "B", "'">>)
jC == Node("js", <<"\"", "C", "\"">>)
codeOk == Node("code", <<"{", "truth", ":", "true", "}">>)
codeBad == Node("code", <<"{", "truth", ":", "v", "}">>)

\* The first file holds one of several documents, the second a short one
\* that repeats a phrase of the first.
Docs(sc, f) ==
    IF f = "f1"
    THEN CASE sc = "complete_existing" ->
                {<<tA, tC>>, <<tA, aC, jA, codeOk>>, <<tC, jA, codeBad>>, <<tW>>}
           [] sc = "fix_js" -> {<<jA, jC>>, <<jA, jB>>, <<jC>>}
           [] sc = "index_cards" -> {<<tA, tC, tA>>, <<tX, tC>>}
           [] OTHER -> {<<tA, tC>>, <<tA, tB>>, <<tX>>, <<tW>>}
    ELSE CASE sc = "complete_existing" -> {<<tA, jC, codeOk>>}
           [] sc = "fix_js" -> {<<jA>>}
           [] OTHER -> {<<tA>>}

\* The file lists a run can be given.  The lists of batch_visible and
\* sync_source come from the command line and may repeat a file.
FileLists(sc) ==
    {<<"f1">>, <<"f1", "f2">>}
    \cup (IF sc \in {"batch_visible", "sync_source"} THEN {<<"f1", "f1">>} ELSE {})

LangChoices(sc) ==
    CASE sc = "complete_existing" ->
           {[f \in Files |-> "es"], [f \in Files |-> IF f = "f1" THEN "es" ELSE "fr"]}
      [] sc = "index_cards" -> {[f \in Files |-> IF f = "f1" THEN "es" ELSE "fr"]}
      [] sc \in {"complete_arabic", "fix_js", "fix_arabic_bulk"} -> {[f \in Files |-> "ar"]}
      [] OTHER -> {[f \in Files |-> "es"]}

Init ==
    /\ script \in Scripts
    /\ dry_run \in BOOLEAN
    /\ backup_enabled \in BOOLEAN
    /\ include_scripts \in (IF script = "complete_existing" THEN BOOLEAN ELSE {FALSE})
    /\ skip_guard \in (IF include_scripts THEN BOOLEAN ELSE {FALSE})
    /\ selection_errors \in (IF ChecksSelection(script) THEN {0, 1} ELSE {0})
    /\ files \in FileLists(script)
    /\ langOf \in {l \in LangChoices(script) :
                      \A f \in Files \ Range(files) : l[f] = l["f1"]}
    /\ disk \in {d \in [Files -> UNION {Docs(script, f) : f \in Files} \cup {<<>>}] :
                   \A f \in Files : IF f \in Range(files) THEN d[f] \in Docs(script, f)
                                    ELSE d[f] = <<>>}
    /\ orig = disk
    /\ pc = "main"
    /\ fidx = 0
    /\ soup = <<>>
    /\ phase = 1
    /\ file_changes = 0
    /\ uniq = <<>> /\ i = 1 /\ chunk = <<>> /\ j = 1
    /\ batch = NoBatch
    /\ indiv = <<>>
    /\ cache = NoCache
    /\ tg = NoCall
    /\ ret = NoRet
    /\ backup_base = FALSE
    /\ copies = {}
    /\ writes = <<>>
    /\ out = {}
    /\ total_changes = 0 /\ guard_blocks = 0 /\ file_errors = 0
    /\ processed = <<>>
    /\ exit_code = -1
    /\ lastReq = {}
    /\ everCached = {}
    /\ gave_up = {}
    /\ summary = {}
    /\ pace = "none"

----------------------------------------------------------------------------
(* translate_google *)

\* Entering translate_google(text): it returns at once on an empty text and
\* on a cache hit, and otherwise starts its attempts.
Enter(text, ctx, keys) ==
    LET t == normalize(script, text)
        call == [text |-> t, key |-> Key(lang, t), attempt |-> 0, reqs |-> 0,
                 waits |-> <<>>, ctx |-> ctx, keys |-> keys, before |-> cache]
    IN /\ tg' = call
       /\ ret' = IF t = <<>> THEN [kind |-> "empty_text", val |-> t]
                 ELSE IF Key(lang, t) \in DOMAIN cache
                      THEN [kind |-> "cached", val |-> cache[Key(lang, t)]]
                      ELSE NoRet
       /\ pc' = IF t = <<>> \/ Key(lang, t) \in DOMAIN cache THEN "ret" ELSE "tg"

\* Whether the call ends after the attempt numbered attempt (from 0).
LastAttempt(sc, attempt) == attempt + 1 >= MaxAttempts(sc)

\* The attempt's time.sleep: every raising attempt of the raising variants,
\* every raising attempt but the last of the others.
SleepsAfter(sc, attempt) == RaisesOnFailure(sc) \/ ~LastAttempt(sc, attempt)

\* Whether the call, on its last attempt raising, stores the text as its
\* own translation and warns.
KeepsOriginal(sc) == ~RaisesOnFailure(sc)

\* One attempt of the running call: one request and what follows from it.
TgAttempt ==
    /\ pc = "tg"
    /\ \E r \in Outcomes(script, tg.ctx = "batch", Len(files)) :
         LET translated == Strip(r.text)
             done == LastAttempt(script, tg.attempt)
             next == [tg EXCEPT !.attempt = @ + 1, !.reqs = @ + 1,
                         !.waits = IF r.exc /\ SleepsAfter(script, tg.attempt)
                                   THEN Append(@, Backoff(script, tg.attempt)) ELSE @]
         IN /\ lastReq' = tg.keys
            /\ tg' = next
            /\ IF ~r.exc /\ translated # <<>>
               THEN /\ cache' = Put(cache, tg.key, translated)
                    /\ ret' = [kind |-> "translated", val |-> translated]
                    /\ pc' = "ret"
                    /\ out' = out
               ELSE IF ~done
               THEN /\ cache' = cache
                    /\ ret' = ret
                    /\ pc' = "tg"
                    /\ out' = out
               ELSE IF RaisesOnFailure(script)
               THEN /\ cache' = cache
                    /\ ret' = [kind |-> "raise", val |-> tg.text]
                    /\ pc' = "ret"
                    /\ out' = out
               ELSE IF r.exc /\ KeepsOriginal(script)
               THEN /\ cache' = Put(cache, tg.key, tg.text)
                    /\ ret' = [kind |-> "original", val |-> tg.text]
                    /\ pc' = "ret"
                    /\ out' = out \cup {Msg("WARN", cur, tg.text)}
               ELSE /\ cache' = cache
                    /\ ret' = [kind |-> "original", val |-> tg.text]
                    /\ pc' = "ret"
                    /\ out' = out
    /\ everCached' = everCached \cup DOMAIN cache'
    /\ gave_up' = IF ret'.kind = "original" THEN gave_up \cup {tg.key} ELSE gave_up
    /\ summary' = summary
    /\ pace' = IF tg'.waits # tg.waits THEN "slept" ELSE "requested"
    /\ UNCHANGED <<cfgVars, fileVars, batchVars, diskVars,
                   total_changes, guard_blocks, file_errors, processed, exit_code>>

----------------------------------------------------------------------------
(* main: prologue, file loop, epilogue *)

\* Whether the script copies every selected file into the backup directory
\* before the loop (the others back a file up right before writing it).
BacksUpFront(sc) == sc \in {"complete_arabic", "fix_js"}

\* How main treats an exception that escapes the processing of one file:
\* "continue" (caught, reported, next file), "abort" (caught, reported,
\* return 1) or "crash" (not caught).
OnFileError(sc) ==
    CASE sc \in {"complete_existing", "complete_arabic", "fix_js"} -> "continue"
      [] sc = "index_cards" -> "abort"
      [] OTHER -> "crash"

\* ExitCode looking at the file errors only.
ExitCodeErrorsOnly(sc, blocks, errors) ==
    IF sc = "complete_existing" /\ errors > 0 THEN 1 ELSE 0

\* The run's exit code from its counters.
ExitCode(sc, blocks, errors) ==
    IF sc = "complete_existing" /\ (blocks > 0 \/ errors > 0) THEN 1 ELSE 0

\* The prologue of main: the selection is validated and the backup
\* directory made.  A selection error ends the run with exit code 1;
\* complete_existing validates before it makes the directory, the others
\* after.
Start ==
    /\ pc = "main"
    /\ backup_base' = (/\ ~dry_run /\ backup_enabled
                       /\ (script = "complete_existing" => selection_errors = 0))
    /\ copies' = IF BacksUpFront(script) /\ ~dry_run /\ backup_enabled
                 THEN {[file |-> f, content |-> disk[f]] : f \in Range(files)}
                 ELSE {}
    /\ IF selection_errors > 0
       THEN /\ out' = out \cup {Msg("SELECTION", "", <<>>)}
            /\ exit_code' = 1
            /\ pc' = "done"
       ELSE /\ pc' = "loop"
            /\ UNCHANGED <<out, exit_code>>
    /\ lastReq' = {}
    /\ UNCHANGED <<cfgVars, fileVars, batchVars, tgVars, disk, writes,
                   total_changes, guard_blocks, file_errors, processed,
                   cache, everCached, gave_up, summary, pace>>

\* The exception handling of main around one file.
FileError ==
    /\ out' = out \cup {Msg(IF OnFileError(script) = "crash" THEN "TRACEBACK" ELSE "ERR",
                            files[fidx'], <<>>)}
    /\ file_errors' = IF script = "complete_existing" THEN file_errors + 1 ELSE file_errors
    /\ pc' = CASE OnFileError(script) = "continue" -> "loop"
               [] OnFileError(script) = "abort" -> "done"
               [] OTHER -> "crashed"
    /\ exit_code' = IF OnFileError(script) = "continue" THEN exit_code ELSE 1

\* The next file is opened, read and parsed.
OpenFile ==
    /\ pc = "loop"
    /\ fidx < Len(files)
    /\ fidx' = fidx + 1
    /\ processed' = Append(processed, files[fidx + 1])
    /\ soup' = disk[files[fidx + 1]]
    /\ phase' = 1
    /\ file_changes' = 0
    /\ pc' = "file"
    /\ lastReq' = {}
    /\ UNCHANGED <<cfgVars, batchVars, tgVars, diskVars, out, total_changes,
                   guard_blocks, file_errors, exit_code, cache, everCached, gave_up, summary, pace>>

\* Reading the next file raises (the file is unreadable).
ReadError ==
    /\ pc = "loop"
    /\ fidx < Len(files)
    /\ fidx' = fidx + 1
    /\ processed' = Append(processed, files[fidx + 1])
    /\ FileError
    /\ lastReq' = {}
    /\ UNCHANGED <<cfgVars, soup, phase, file_changes, batchVars, tgVars, diskVars,
                   total_changes, guard_blocks, cache, everCached, gave_up, summary, pace>>

\* The counts the final summary prints: the replacements, the cached
\* phrases (but in batch_visible), and in complete_existing the guard
\* blocks, selection errors and file errors that are not zero (in
\* index_cards the selection errors).
SummaryCounts(sc, total, cached, blocks, selerrs, ferrs) ==
    LET line(name, n) == [count |-> name, value |-> n]
    IN {line("replacements", total)}
       \cup (IF sc # "batch_visible" THEN {line("cached", cached)} ELSE {})
       \cup (IF sc = "complete_existing" /\ blocks > 0
             THEN {line("guard_blocks", blocks)} ELSE {})
       \cup (IF sc \in {"complete_existing", "index_cards"} /\ selerrs > 0
             THEN {line("selection_errors", selerrs)} ELSE {})
       \cup (IF sc = "complete_existing" /\ ferrs > 0
             THEN {line("file_errors", ferrs)} ELSE {})

\* All files done: the summary and the exit code.
Finish ==
    /\ pc = "loop"
    /\ fidx = Len(files)
    /\ out' = out \cup {Msg("SUMMARY", "", <<>>)}
    /\ summary' = SummaryCounts(script, total_changes, Cardinality(DOMAIN cache),
                                guard_blocks, selection_errors, file_errors)
    /\ exit_code' = ExitCode(script, guard_blocks, file_errors)
    /\ pc' = "done"
    /\ lastReq' = {}
    /\ UNCHANGED <<cfgVars, fileVars, batchVars, tgVars, diskVars, total_changes,
                   guard_blocks, file_errors, processed, cache, everCached, gave_up, pace>>

----------------------------------------------------------------------------
(* batch_translate *)

\* The last phase of a file.
LastPhase(sc, scripts_too) ==
    IF sc = "complete_existing" THEN (IF scripts_too THEN 3 ELSE 2) ELSE 1

\* AfterChunk going round the loop whatever the cursor.
AfterChunkAgain(idx, u) == "chunk"

\* After a batch is dealt with: the next batch, or the rewriting.
AfterChunk(idx, u) == IF idx <= Len(u) THEN "chunk" ELSE "apply"

\* The phrases handed to batch_translate.
BatchInput(sc, phase_, nodes) ==
    IF sc = "sync_source" THEN SortedSet(phrases(sc, phase_, nodes), <<>>)
    ELSE phrases(sc, phase_, nodes)

\* A phase starts: the targets are collected and batch_translate builds the
\* list of phrases it has to send.
BeginPhase ==
    /\ pc = "file"
    /\ script # "index_cards"
    /\ LET c == IF RunCache(script) THEN cache ELSE NoCache
           u == Uniq(script, lang, c, BatchInput(script, phase, soup))
       IN /\ cache' = c
          /\ uniq' = u
          /\ i' = 1
          /\ pc' = IF script = "complete_arabic" /\ phrases(script, phase, soup) = <<>>
                   THEN "commit"
                   ELSE AfterChunk(1, u)
    /\ chunk' = <<>>
    /\ j' = 1
    /\ batch' = NoBatch
    /\ indiv' = <<>>
    /\ lastReq' = {}
    /\ UNCHANGED <<cfgVars, fileVars, tgVars, diskVars, sumVars, everCached, gave_up, summary, pace>>

ChunkKeys(ch) == {Key(lang, ch[k]) : k \in DOMAIN ch}

\* The next batch is cut from uniq and joined.  complete_existing sends it
\* through translate_google; the others send it themselves.
MakeChunk ==
    /\ pc = "chunk"
    /\ LET b == BuildChunk(script, uniq, i, <<>>, 0)
       IN /\ chunk' = b.chunk
          /\ i' = b.i
          /\ IF script = "complete_existing"
             THEN Enter(join(sep(script), b.chunk), "batch", ChunkKeys(b.chunk))
             ELSE /\ pc' = "request"
                  /\ UNCHANGED tgVars
    /\ batch' = NoBatch
    /\ indiv' = <<>>
    /\ j' = 1
    /\ lastReq' = {}
    /\ UNCHANGED <<cfgVars, fileVars, uniq, diskVars, sumVars, cache, everCached, gave_up, summary, pace>>

\* AfterAnswer storing the parts it has for the first phrases of the batch
\* before the fallback loop starts.
AfterAnswerKeepingParts(failed, translated) ==
    LET parts == SelectParts(script, translated, Len(chunk))
        own == split(translated, sep_variants(script)[1])
        m == IF Len(own) < Len(chunk) THEN Len(own) ELSE Len(chunk)
    IN IF failed
       THEN /\ batch' = [status |-> "error", parts |-> <<>>]
            /\ cache' = cache
            /\ pc' = "fallback"
       ELSE IF parts # <<>> /\ Len(parts) = Len(chunk)
       THEN /\ batch' = [status |-> "match", parts |-> parts]
            /\ cache' = StoreParts(script, cache, lang, chunk, parts)
            /\ pc' = AfterChunk(i, uniq)
       ELSE /\ batch' = [status |-> "mismatch", parts |-> own]
            /\ cache' = StoreParts(script, cache, lang, SubSeq(chunk, 1, m), SubSeq(own, 1, m))
            /\ pc' = "fallback"

\* What follows from the answer to a batch: the parts are stored when the
\* answer splits into as many parts as the batch has phrases, and otherwise
\* (or when there is no answer) the fallback loop starts.
AfterAnswer(failed, translated) ==
    LET parts == SelectParts(script, translated, Len(chunk))
        own == split(translated, sep_variants(script)[1])
    IN IF failed
       THEN /\ batch' = [status |-> "error", parts |-> <<>>]
            /\ cache' = cache
            /\ pc' = "fallback"
       ELSE IF parts # <<>> /\ Len(parts) = Len(chunk)
       THEN /\ batch' = [status |-> "match", parts |-> parts]
            /\ cache' = StoreParts(script, cache, lang, chunk, parts)
            /\ pc' = AfterChunk(i, uniq)
       ELSE /\ batch' = [status |-> "mismatch", parts |-> own]
            /\ cache' = cache
            /\ pc' = "fallback"

\* The batch request of the scripts that send it themselves.
BatchRequest ==
    /\ pc = "request"
    /\ \E r \in Outcomes(script, TRUE, Len(files)) : AfterAnswer(r.exc, Strip(r.text))
    /\ lastReq' = ChunkKeys(chunk)
    /\ everCached' = everCached \cup DOMAIN cache'
    /\ UNCHANGED <<gave_up, summary>>
    /\ pace' = IF pc' = "fallback" THEN "requested" ELSE "slept"
    /\ UNCHANGED <<cfgVars, fileVars, uniq, i, chunk, j, indiv, tgVars, diskVars, sumVars>>

\* translate_google(joined) came back to batch_translate_texts.
BatchReturn ==
    /\ pc = "ret"
    /\ tg.ctx = "batch"
    /\ AfterAnswer(ret.kind = "raise", ret.val)
    /\ tg' = NoCall
    /\ ret' = NoRet
    /\ lastReq' = {}
    /\ everCached' = everCached \cup DOMAIN cache'
    /\ UNCHANGED <<gave_up, summary>>
    /\ pace' = IF pc' = "fallback" THEN pace ELSE "slept"
    /\ UNCHANGED <<cfgVars, fileVars, uniq, i, chunk, j, indiv, diskVars, sumVars>>

\* The fallback loop calls translate_google for the next phrase of the batch.
FallbackCall ==
    /\ pc = "fallback"
    /\ script \in {"complete_existing", "complete_arabic", "fix_js"}
    /\ indiv' = Append(indiv, chunk[j])
    /\ Enter(chunk[j], "indiv", {Key(lang, chunk[j])})
    /\ lastReq' = {}
    /\ UNCHANGED <<cfgVars, fileVars, uniq, i, chunk, j, batch, diskVars, sumVars,
                   cache, everCached, gave_up, summary, pace>>

\* The fallback loop's body ends: an exception of translate_google stores the
\* phrase as its own translation (complete_existing), and the loop goes on.
FallbackReturn ==
    /\ pc = "ret"
    /\ tg.ctx = "indiv"
    /\ cache' = IF ret.kind = "raise" THEN Put(cache, Key(lang, chunk[j]), chunk[j]) ELSE cache
    /\ gave_up' = IF ret.kind = "raise" THEN gave_up \cup {Key(lang, chunk[j])} ELSE gave_up
    /\ j' = j + 1
    /\ pc' = IF j + 1 <= Len(chunk) THEN "fallback" ELSE AfterChunk(i, uniq)
    /\ tg' = NoCall
    /\ ret' = NoRet
    /\ lastReq' = {}
    /\ everCached' = everCached \cup DOMAIN cache'
    /\ summary' = summary
    /\ pace' = "slept"
    /\ UNCHANGED <<cfgVars, fileVars, uniq, i, chunk, batch, indiv, diskVars, sumVars>>

\* The fallback loop of batch_visible and sync_source: one bare request per
\* phrase, whose answer is stored as it is, and the phrase itself when the
\* request raises.
FallbackRequest ==
    /\ pc = "fallback"
    /\ script \in {"batch_visible", "sync_source"}
    /\ indiv' = Append(indiv, chunk[j])
    /\ \E r \in Outcomes(script, FALSE, Len(files)) :
         /\ cache' = Put(cache, Key(lang, chunk[j]), IF r.exc THEN chunk[j] ELSE Strip(r.text))
         /\ gave_up' = IF r.exc THEN gave_up \cup {Key(lang, chunk[j])} ELSE gave_up
         /\ pace' = IF r.exc /\ j + 1 <= Len(chunk) THEN "requested" ELSE "slept"
    /\ j' = j + 1
    /\ pc' = IF j + 1 <= Len(chunk) THEN "fallback" ELSE AfterChunk(i, uniq)
    /\ lastReq' = {Key(lang, chunk[j])}
    /\ everCached' = everCached \cup DOMAIN cache'
    /\ summary' = summary
    /\ UNCHANGED <<cfgVars, fileVars, uniq, i, chunk, batch, tgVars, diskVars, sumVars>>

----------------------------------------------------------------------------
(* translate_file of index_cards: element by element, no batches *)

\* Whether element k of the page still holds the English source text.
StillSource(nodes, k) ==
    /\ k <= Len(source_steps)
    /\ nodes[k].kind = "text"
    /\ normalize("index_cards", nodes[k].raw) = source_steps[k]

\* The element loop: an element that still equals its source text is handed
\* to translate_google; after the last element the file is committed.
CardStep ==
    /\ \/ pc = "file" /\ script = "index_cards"
       \/ pc = "card"
    /\ LET k == IF pc = "file" THEN 1 ELSE j
       IN IF k > Len(soup) \/ k > Len(source_steps)
          THEN /\ pc' = "commit"
               /\ j' = k
               /\ UNCHANGED tgVars
          ELSE IF StillSource(soup, k)
          THEN /\ j' = k
               /\ Enter(source_steps[k], "card", {Key(lang, source_steps[k])})
          ELSE /\ j' = k + 1
               /\ pc' = "card"
               /\ UNCHANGED tgVars
    /\ lastReq' = {}
    /\ UNCHANGED <<cfgVars, fileVars, uniq, i, chunk, batch, indiv, diskVars, sumVars,
                   cache, everCached, gave_up, summary, pace>>

\* set_plain_text(el, translated) when the translation differs.
SetCard(nodes, k, translated) ==
    IF translated # normalize("index_cards", nodes[k].raw)
    THEN [nodes EXCEPT ![k] = Node("text", translated)]
    ELSE nodes

\* translate_google came back to translate_file: the element is replaced
\* when its translation differs; an exception leaves translate_file.
CardReturn ==
    /\ pc = "ret"
    /\ tg.ctx = "card"
    /\ IF ret.kind = "raise"
       THEN /\ UNCHANGED <<fidx, soup, file_changes, j, processed, guard_blocks, total_changes>>
            /\ FileError
       ELSE /\ soup' = SetCard(soup, j, ret.val)
            /\ file_changes' = file_changes + (IF SetCard(soup, j, ret.val) # soup THEN 1 ELSE 0)
            /\ j' = j + 1
            /\ pc' = "card"
            /\ UNCHANGED <<fidx, sumVars>>
    /\ tg' = NoCall
    /\ ret' = NoRet
    /\ lastReq' = {}
    /\ UNCHANGED <<cfgVars, phase, uniq, i, chunk, batch, indiv, diskVars,
                   cache, everCached, gave_up, summary, pace>>

----------------------------------------------------------------------------
(* Rewriting and committing a file *)

\* The phase's targets are rewritten from the cache and the changes counted.
ApplyPhase ==
    /\ pc = "apply"
    /\ soup' = ApplyTranslations(script, phase, lang, cache, soup)
    /\ file_changes' = file_changes + CountChanges(script, phase, lang, cache, soup)
    /\ IF phase < LastPhase(script, include_scripts)
       THEN /\ phase' = phase + 1
            /\ pc' = "file"
       ELSE /\ phase' = phase
            /\ pc' = "commit"
    /\ batch' = NoBatch
    /\ indiv' = <<>>
    /\ tg' = NoCall
    /\ ret' = NoRet
    /\ lastReq' = {}
    /\ UNCHANGED <<cfgVars, fidx, uniq, i, chunk, j, diskVars, sumVars, cache, everCached, gave_up, summary, pace>>

\* ShouldWrite without the dry-run test.
ShouldWriteAnyMode(changes, dry) == changes > 0

\* Whether the file is to be written at all.
ShouldWrite(changes, dry) == changes > 0 /\ ~dry

\* The guard running whatever --skip-script-integrity-guard says.
GuardRunsAlways(sc, scripts_too, skip) == sc = "complete_existing" /\ scripts_too

\* Whether the integrity guard runs before the write.
GuardRuns(sc, scripts_too, skip) == sc = "complete_existing" /\ scripts_too /\ ~skip

\* No script backs the file up between the decision and the write.
NeverBacksUpBeforeWrite(sc) == FALSE

\* Whether the script backs the file up between the decision and the write.
BacksUpBeforeWrite(sc) == ~BacksUpFront(sc)

\* The file's processing ends: nothing to write, a write blocked by the
\* integrity guard, or the way to the backup and the write.
Commit ==
    /\ pc = "commit"
    /\ IF ~ShouldWrite(file_changes, dry_run)
       THEN /\ total_changes' = total_changes + file_changes
            /\ out' = out \cup {Msg("OK", cur, <<>>)}
            /\ guard_blocks' = guard_blocks
            /\ pc' = "loop"
       ELSE IF GuardRuns(script, include_scripts, skip_guard)
               /\ detect_script_translation_risks(soup) # <<>>
       THEN /\ guard_blocks' = guard_blocks + 1
            /\ out' = out \cup {Msg("GUARD", cur, detect_script_translation_risks(soup))}
            /\ total_changes' = total_changes
            /\ pc' = "loop"
       ELSE /\ pc' = IF BacksUpBeforeWrite(script) THEN "backup" ELSE "write"
            /\ UNCHANGED <<out, total_changes, guard_blocks>>
    /\ lastReq' = {}
    /\ UNCHANGED <<cfgVars, fileVars, batchVars, tgVars, diskVars, file_errors, processed,
                   exit_code, cache, everCached, gave_up, summary, pace>>

\* backup_file: the file on disk is copied into the run's backup directory,
\* when there is one, over an earlier copy of the same file.
BackupFile ==
    /\ pc = "backup"
    /\ copies' = IF backup_base
                 THEN {c \in copies : c.file # cur}
                      \cup {[file |-> cur, content |-> disk[cur]]}
                 ELSE copies
    /\ pc' = "write"
    /\ lastReq' = {}
    /\ UNCHANGED <<cfgVars, fileVars, batchVars, tgVars, disk, backup_base, writes,
                   sumVars, cache, everCached, gave_up, summary, pace>>

\* The document is serialized over the file.
WriteFile ==
    /\ pc = "write"
    /\ disk' = [disk EXCEPT ![cur] = soup]
    /\ writes' = Append(writes, [file |-> cur, changes |-> file_changes])
    /\ total_changes' = total_changes + file_changes
    /\ out' = out \cup {Msg("OK", cur, <<>>)}
    /\ pc' = "loop"
    /\ lastReq' = {}
    /\ UNCHANGED <<cfgVars, fileVars, batchVars, tgVars, backup_base, copies,
                   guard_blocks, file_errors, processed, exit_code, cache, everCached, gave_up, summary, pace>>

----------------------------------------------------------------------------

Next ==
    \/ Start
    \/ OpenFile
    \/ ReadError
    \/ Finish
    \/ BeginPhase
    \/ MakeChunk
    \/ BatchRequest
    \/ TgAttempt
    \/ BatchReturn
    \/ FallbackCall
    \/ FallbackReturn
    \/ FallbackRequest
    \/ CardStep
    \/ CardReturn
    \/ ApplyPhase
    \/ Commit
    \/ BackupFile
    \/ WriteFile

Spec == Init /\ [][Next]_vars

----------------------------------------------------------------------------
(* The batcher on long phrase lists.  A second specification runs the loop *)
(* that cuts the batches, without the requests, on one file whose phrase   *)
(* list is long enough for the item limit to close a batch.                *)

\* The longest phrase list.
MaxPhrases == 42

\* The scripts with a batch loop of their own limits (sync_source shares
\* complete_existing's).
BatcherScripts == {"complete_existing", "complete_arabic", "fix_js", "batch_visible"}

\* The k-th short phrase: distinct from the others, 12 + k characters.
ShortPhrase(k) == <<"A">> \o [m \in 1..k |-> "'"]

\* The location holding phrase p in a document of the script.
LocationOf(sc, p) ==
    IF PhaseKind(sc, 1) = "js" THEN Node("js", <<"\"">> \o p \o <<"\"">>)
    ELSE Node("text", p)

\* A document of n targets with distinct phrases, the one at position long
\* (if any: the second or the last) being the very long phrase.
LongDoc(sc, n, long) ==
    [k \in 1..n |-> LocationOf(sc, IF k = long THEN <<"B">> ELSE ShortPhrase(k))]

\* batch_translate has been called on the phrases of the file's first phase
\* and has built the list it has to send.
InitBatcher ==
    /\ script \in BatcherScripts
    /\ dry_run = TRUE
    /\ backup_enabled = FALSE
    /\ include_scripts = FALSE
    /\ skip_guard = FALSE
    /\ selection_errors = 0
    /\ files = <<"f1">>
    /\ langOf \in {l \in LangChoices(script) : l["f2"] = l["f1"]}
    /\ \E n \in 0..MaxPhrases : \E long \in {0, 2, n} :
          /\ long <= n
          /\ disk = [f \in Files |-> IF f = "f1" THEN LongDoc(script, n, long) ELSE <<>>]
    /\ orig = disk
    /\ fidx = 1
    /\ soup = disk["f1"]
    /\ phase = 1
    /\ file_changes = 0
    /\ uniq = Uniq(script, langOf["f1"], NoCache, BatchInput(script, 1, soup))
    /\ i = 1 /\ chunk = <<>> /\ j = 1
    /\ pc = AfterChunk(1, uniq)
    /\ batch = NoBatch
    /\ indiv = <<>>
    /\ cache = NoCache
    /\ tg = NoCall
    /\ ret = NoRet
    /\ backup_base = FALSE
    /\ copies = {}
    /\ writes = <<>>
    /\ out = {}
    /\ total_changes = 0 /\ guard_blocks = 0 /\ file_errors = 0
    /\ processed = <<"f1">>
    /\ exit_code = -1
    /\ lastReq = {}
    /\ everCached = {}
    /\ gave_up = {}
    /\ summary = {}
    /\ pace = "none"

\* One iteration of the outer loop up to the join: the next batch is cut
\* from uniq.
CutBatch ==
    /\ pc = "chunk"
    /\ LET b == BuildChunk(script, uniq, i, <<>>, 0)
       IN /\ chunk' = b.chunk
          /\ i' = b.i
          /\ pc' = AfterChunk(b.i, uniq)
    /\ UNCHANGED <<cfgVars, fileVars, uniq, j, batch, indiv, tgVars, diskVars, sumVars,
                   cache, lastReq, everCached, gave_up, summary, pace>>

NextBatcher == CutBatch

SpecBatcher == InitBatcher /\ [][NextBatcher]_vars

----------------------------------------------------------------------------
(* The rewriter on translations of any shape.  Further specifications      *)
(* start where batch_translate has returned for a one-file run whose       *)
(* phrases were all cached earlier in the run, and rewrite the document.   *)

\* The longest translation of a literal.
MaxLitLen == 3

\* A run on the one file f1 holding doc, at the place pcv of phase ph with
\* the cache c.
OneFileAt(pcv, doc, ph, c, dry) ==
    /\ dry_run = dry
    /\ backup_enabled = FALSE
    /\ include_scripts = (script = "complete_existing")
    /\ skip_guard = FALSE
    /\ selection_errors = 0
    /\ files = <<"f1">>
    /\ langOf \in {l \in LangChoices(script) : l["f2"] = l["f1"]}
    /\ disk = [f \in Files |-> IF f = "f1" THEN doc ELSE <<>>]
    /\ orig = disk
    /\ fidx = 1
    /\ soup = doc
    /\ phase = ph
    /\ file_changes = 0
    /\ uniq = <<>> /\ i = 1 /\ chunk = <<>> /\ j = 1
    /\ pc = pcv
    /\ batch = NoBatch
    /\ indiv = <<>>
    /\ cache = [k \in {Key(langOf["f1"], p) : p \in DOMAIN c} |-> c[k[2]]]
    /\ tg = NoCall
    /\ ret = NoRet
    /\ backup_base = FALSE
    /\ copies = {}
    /\ writes = <<>>
    /\ out = {}
    /\ total_changes = 0 /\ guard_blocks = 0 /\ file_errors = 0
    /\ processed = <<"f1">>
    /\ exit_code = -1
    /\ lastReq = {}
    /\ everCached = DOMAIN cache
    /\ gave_up = {}
    /\ summary = {}
    /\ pace = IF DOMAIN c = {} THEN "none" ELSE "slept"

\* What a stored translation can hold: letters of the target script,
\* either quote character, a backslash, a line break.
LiteralTokens == {"x", "'", "\"", "\\", "NL"}

\* The stored translations: stripped and not empty.
Translations ==
    {t \in UNION {[1..n -> LiteralTokens] : n \in 1..MaxLitLen} : Strip(t) = t}

\* The scripts that rewrite script string literals, and the phase in which
\* they do.
LiteralScripts == {"complete_existing", "fix_js"}

LiteralPhase(sc) == IF sc = "complete_existing" THEN 3 ELSE 1

\* The script code that can follow a literal: nothing of interest, or the
\* colon that makes the literal the key of an object member.
AfterLiteral == {<<>>, <<Node("code", <<":">>)>>}

\* The file holds one literal 'A' or "A" and the cache a translation of A.
InitLiteral ==
    /\ script \in LiteralScripts
    /\ \E q \in {"'", "\""}, t \in Translations, after \in AfterLiteral :
          OneFileAt("apply", <<Node("js", <<q, "A", q>>)>> \o after,
                         LiteralPhase(script), [p \in {<<"A">>} |-> t], TRUE)

NextLiteral == ApplyPhase

SpecLiteral == InitLiteral /\ [][NextLiteral]_vars

\* The longest script code the guard is run on.
MaxCodeLen == 5

\* What script code is made of for the guard: braces and commas, the truth
\* key, colons, whitespace, the two booleans' true, another value, a string
\* literal.
CodeTokens == {"{", ",", "truth", ":", "SP", "true", "v", "STR"}

ScriptCode == UNION {[1..n -> CodeTokens] : n \in 0..MaxCodeLen}

\* A real run of complete_existing with --include-scripts on a file that
\* holds one translated literal and some script code.
InitGuard ==
    /\ script = "complete_existing"
    /\ \E code \in ScriptCode :
          OneFileAt("apply", <<jA, Node("code", code)>>, 3,
                         [p \in {<<"A">>} |-> <<"x">>], FALSE)

NextGuard == ApplyPhase \/ Commit \/ BackupFile \/ WriteFile

SpecGuard == InitGuard /\ [][NextGuard]_vars

\* The longest text of a location put to the classifiers.
MaxTextLen == 3

\* The texts put to the classifiers: identifiers, English phrases, text in
\* the target script, spaces.
ClassifiedTexts == UNION {[1..n -> {"ID", "A", "x", "SP"}] : n \in 1..MaxTextLen}

\* The scripts that classify the texts of a document.
ClassifierScripts ==
    {"complete_existing", "complete_arabic", "fix_js", "batch_visible", "sync_source"}

\* A text as a location of some kind: script literals are quoted.
Located(kind, t) == Node(kind, IF kind = "js" THEN <<"'">> \o t \o <<"'">> ELSE t)

\* A run on a file with one location of the kind the phase walks, holding
\* any text, before the phase collects its phrases.
InitClassify ==
    /\ script \in ClassifierScripts
    /\ \E t \in ClassifiedTexts, ph \in 1..3 :
          /\ ph <= LastPhase(script, TRUE)
          /\ OneFileAt("file", <<Located(PhaseKind(script, ph), t)>>, ph, NoCache, TRUE)

NextClassify == BeginPhase

SpecClassify == InitClassify /\ [][NextClassify]_vars

----------------------------------------------------------------------------
(* fix_arabic_bulk.  A course file is its <html> tag, as the sequence of   *)
(* its attributes, and the rest of the page, as the things the other       *)
(* fixes look for.  The file is a course file, not index-ar.html, so the    *)
(* selector fix does not apply; the arrow-key swap and the skip-link fix   *)
(* rewrite script and link text the model does not hold.                    *)

\* The most attributes of an <html> tag.
MaxAttrs == 3

HtmlAttrs == {"lang=\"en\"", "lang=\"ar\"", "dir=\"rtl\"", "dir=\"ltr\"", "class=\"c\""}

HtmlTags == UNION {[1..n -> HtmlAttrs] : n \in 0..MaxAttrs}

\* The rest of a page: a zero-width space, the library link, a left
\* alignment in a style block, other text.
PageRests ==
    {<<>>, <<"x">>, <<"ZWSP", "x">>, <<"href=\"index.html\"">>, <<"text-align: left">>}

\* FIX 1: <html lang="en"> and <html lang="en" ...> become
\* <html lang="ar" dir="rtl" ...>; any other tag is left as it is.
FixLangDir(attrs) ==
    IF attrs # <<>> /\ Head(attrs) = "lang=\"en\""
    THEN <<"lang=\"ar\"", "dir=\"rtl\"">> \o Tail(attrs)
    ELSE attrs

\* FIX 3, 4 and 5a on the rest of a course file.
RECURSIVE FixRest(_)
FixRest(rest) ==
    IF rest = <<>> THEN <<>>
    ELSE (CASE Head(rest) = "ZWSP" -> <<>>
            [] Head(rest) = "href=\"index.html\"" -> <<"href=\"index-ar.html\"">>
            [] Head(rest) = "text-align: left" -> <<"text-align: right">>
            [] OTHER -> <<Head(rest)>>)
         \o FixRest(Tail(rest))

FixContent(content) ==
    <<Node("html", FixLangDir(content[1].raw)), Node("rest", FixRest(content[2].raw))>>

\* The names of the fixes fix_file returns.
Fixes(content) ==
    (IF FixLangDir(content[1].raw) # content[1].raw THEN <<"lang_dir">> ELSE <<>>)
    \o (IF "ZWSP" \in Range(content[2].raw) THEN <<"zwsp_stripped">> ELSE <<>>)
    \o (IF "href=\"index.html\"" \in Range(content[2].raw) THEN <<"library_link">> ELSE <<>>)
    \o (IF "text-align: left" \in Range(content[2].raw) THEN <<"rtl_css">> ELSE <<>>)

\* main has listed the one -ar.html file and is about to call fix_file.
InitBulk ==
    /\ script = "fix_arabic_bulk"
    /\ \E tag \in HtmlTags, rest \in PageRests, dry \in BOOLEAN :
          OneFileAt("bulk", <<Node("html", tag), Node("rest", rest)>>, 1, NoCache, dry)

\* fix_file: the file is read, fixed, and written when it changed and the
\* run is not a dry run; main prints the fixes.
fix_file ==
    /\ pc = "bulk"
    /\ LET content == FixContent(disk[cur])
           written == content # disk[cur] /\ ~dry_run
       IN /\ soup' = content
          /\ disk' = IF written THEN [disk EXCEPT ![cur] = content] ELSE disk
          /\ writes' = IF written
                       THEN Append(writes, [file |-> cur, changes |-> Len(Fixes(disk[cur]))])
                       ELSE writes
          /\ file_changes' = Len(Fixes(disk[cur]))
          /\ out' = IF Fixes(disk[cur]) # <<>>
                    THEN out \cup {Msg("FIXES", cur, Fixes(disk[cur]))}
                    ELSE out
          /\ total_changes' = total_changes + Len(Fixes(disk[cur]))
    /\ pc' = "loop"
    /\ UNCHANGED <<cfgVars, fidx, phase, batchVars, tgVars, backup_base, copies,
                   guard_blocks, file_errors, processed, exit_code, cache,
                   lastReq, everCached, gave_up, summary, pace>>

NextBulk == fix_file

SpecBulk == InitBulk /\ [][NextBulk]_vars

----------------------------------------------------------------------------
(* Properties *)

C2_FallbackFillsCache ==
    (batch.status = "mismatch" /\ pc \in {"chunk", "apply"})
        => \A n \in DOMAIN chunk : Key(lang, chunk[n]) \in DOMAIN cache

\* C3 as stated: when the answer splits into as many parts as the batch has
\* phrases, the entry stored for the n-th phrase is the n-th part, stripped.
C3_PartStoredStripped ==
    batch.status = "match"
        => \A n \in DOMAIN chunk :
             /\ Key(lang, chunk[n]) \in DOMAIN cache
             /\ cache[Key(lang, chunk[n])] = Strip(batch.parts[n])

\* C3 amended: the entry stored for the n-th phrase is the n-th part,
\* stripped, except that complete_existing, complete_arabic and fix_js store
\* the phrase itself when its part is empty after stripping.
C3_PartOrSourceStored ==
    batch.status = "match"
        => \A n \in DOMAIN chunk :
             /\ Key(lang, chunk[n]) \in DOMAIN cache
             /\ cache[Key(lang, chunk[n])] =
                  IF Strip(batch.parts[n]) = <<>>
                     /\ script \in {"complete_existing", "complete_arabic", "fix_js"}
                  THEN chunk[n]
                  ELSE Strip(batch.parts[n])

\* A matching answer to a batch of two phrases whose first part is empty
\* and whose second part is a word with a space to strip.
C3_Witness ==
    /\ batch.status = "match"
    /\ Len(chunk) = 2
    /\ Strip(batch.parts[1]) = <<>>
    /\ Strip(batch.parts[2]) # <<>>
    /\ Strip(batch.parts[2]) # batch.parts[2]

\* C4: no request contains a phrase that already had a cache entry, for its
\* language, earlier in the run.
C4_NoRepeatedRequest == [][lastReq' \cap everCached = {}]_vars

\* C5: a file is written only with a change count above zero and outside
\* dry-run mode; in dry-run mode the files on disk stay as they were and
\* there is no backup directory and no backup copy.
C5_WritesOnlyChanges ==
    /\ \A n \in DOMAIN writes : writes[n].changes > 0 /\ ~dry_run
    /\ dry_run => (writes = <<>> /\ disk = orig /\ ~backup_base /\ copies = {})

\* A dry run that ended having counted changes.
C5_Witness == dry_run /\ pc = "done" /\ total_changes > 0

\* C6: when the guard returns issues for a file, the step neither copies
\* nor writes it, counts the block, reports it with the file's name and goes
\* on with the loop; a file so reported is never copied or written; and a
\* run with a block ends having started every file, with a non-zero code.
C6_GuardBlocksWrite ==
    [][/\ (/\ script = "complete_existing"
           /\ pc = "commit"
           /\ file_changes > 0 /\ ~dry_run
           /\ include_scripts /\ ~skip_guard
           /\ detect_script_translation_risks(soup) # <<>>)
             => /\ disk' = disk /\ copies' = copies /\ writes' = writes
                /\ guard_blocks' = guard_blocks + 1
                /\ \E m \in out' : m.tag = "GUARD" /\ m.file = cur
                /\ pc' = "loop"
       /\ \A m \in out' :
             m.tag = "GUARD"
                => /\ \A n \in DOMAIN writes' : writes'[n].file # m.file
                   /\ \A c \in copies' : c.file # m.file
       /\ (pc' = "done" /\ guard_blocks' > 0)
             => (exit_code' # 0 /\ processed' = files')
      ]_vars

\* A finished run whose first file was blocked and whose second file was
\* written.
C6_Witness ==
    /\ pc = "done"
    /\ Len(files) = 2
    /\ \E m \in out : m.tag = "GUARD" /\ m.file = files[1]
    /\ \E n \in DOMAIN writes : writes[n].file = files[2]

\* C7: with backups enabled and outside dry-run mode, a step that writes a
\* file finds the backup directory holding a copy of the content the file
\* has on disk before the write.
C7_BackupBeforeWrite ==
    [][(writes' # writes /\ backup_enabled /\ ~dry_run)
          => (backup_base /\ [file |-> cur, content |-> disk[cur]] \in copies)]_vars

\* A written file whose original content is in the backup directory.
C7_Witness ==
    /\ backup_enabled /\ ~dry_run
    /\ writes # <<>>
    /\ disk[writes[1].file] # orig[writes[1].file]
    /\ [file |-> writes[1].file, content |-> orig[writes[1].file]] \in copies

\* C8: a translate_google call of complete_existing sends at most 3
\* requests (index_cards: 4), each wait after a raising attempt is longer
\* than the one before, and the call raises exactly when its last attempt
\* brought no translation, with the cache as it was when the call started.
C8_BoundedRetries ==
    script \in {"complete_existing", "index_cards"}
        => /\ tg.reqs <= (IF script = "index_cards" THEN 4 ELSE 3)
           /\ \A n \in 1..(Len(tg.waits) - 1) : tg.waits[n] < tg.waits[n + 1]
           /\ (pc = "ret" /\ ret.kind = "raise") => cache = tg.before
           /\ (pc = "ret" /\ tg.reqs > 0 /\ ret.kind # "translated")
                 => /\ ret.kind = "raise"
                    /\ tg.reqs = (IF script = "index_cards" THEN 4 ELSE 3)

\* A call that raised after waiting at least twice.
C8_Witness ==
    /\ script \in {"complete_existing", "index_cards"}
    /\ pc = "ret"
    /\ ret.kind = "raise"
    /\ Len(tg.waits) >= 2

\* C9: translate_google of complete_arabic and fix_js never raises, returns
\* a non-empty translation or the normalized text it was given, and has
\* logged a warning whenever it returns the text because no attempt
\* brought a translation.
C9_WarnsOnOriginal ==
    (script \in {"complete_arabic", "fix_js"} /\ pc = "ret")
        => /\ ret.kind # "raise"
           /\ ret.kind = "translated" => ret.val # <<>>
           /\ ret.kind = "original"
                 => (ret.val = tg.text /\ Msg("WARN", cur, tg.text) \in out)

\* C10: a run never ends on an uncaught exception, and when it ends every
\* selected file has been started.
C10_EveryFileProcessed ==
    /\ pc # "crashed"
    /\ pc = "done" => processed = files

\* C11: a run that ended has exit code 0 exactly when it reported no
\* selection error, no per-file error and no integrity-guard block.
C11_ExitCodeTellsErrors ==
    pc \in {"done", "crashed"}
        => (exit_code = 0
              <=> ~\E m \in out : m.tag \in {"SELECTION", "ERR", "TRACEBACK", "GUARD"})

\* C12: when a run has ended, every kind of error that occurred in it has
\* a count above zero in the printed summary: the translations given up
\* (the phrase kept as its own translation), the per-file errors, the guard
\* blocks and the selection errors.
C12_ErrorsCountedInSummary ==
    LET counted(name) == \E c \in summary : c.count = name /\ c.value > 0
    IN pc \in {"done", "crashed"}
         => /\ gave_up # {} => counted("translation_failures")
            /\ (\E m \in out : m.tag \in {"ERR", "TRACEBACK"}) => counted("file_errors")
            /\ guard_blocks > 0 => counted("guard_blocks")
            /\ selection_errors > 0 => counted("selection_errors")

\* C13: when a phase's targets are rewritten, a target whose translation
\* equals its source phrase is left as it was and is not counted as a change
\* (so a file with only such targets counts no change and is not written).
C13_NoOpLeftAlone ==
    [][pc = "apply"
         => LET targets == {k \in DOMAIN soup : IsTarget(script, phase, soup[k])}
                same == {k \in targets :
                           Get(cache, Key(lang, Phrase(script, soup[k])), Phrase(script, soup[k]))
                             = Phrase(script, soup[k])}
            IN /\ \A k \in same : soup'[k] = soup[k]
               /\ file_changes' - file_changes <= Cardinality(targets \ same)]_vars

\* C14: in a run of a script that keeps a cache, no step removes a cache
\* entry or changes the value a key already maps to.
C14_CacheOnlyGrows ==
    [][RunCache(script)
         => \A k \in DOMAIN cache : k \in DOMAIN cache' /\ cache'[k] = cache[k]]_vars

\* C14 witness: a finished run whose cache holds translations stored while
\* the first file was processed next to ones stored for the second file.
C14_Witness ==
    /\ pc = "done"
    /\ RunCache(script)
    /\ Len(files) = 2
    /\ \E k1 \in DOMAIN cache, k2 \in DOMAIN cache :
          k1[1] = langOf[files[1]] /\ k2[1] = langOf[files[2]] /\ k1[1] # k2[1]

\* C15: every key of the cache is the (language, phrase) identity of a
\* phrase extracted from one of the run's documents, and the cached-phrase
\* count of the summary is the number of such identities in the cache.
C15_CacheKeysArePhrases ==
    LET of(f) == UNION {Range(phrases(script, ph, orig[f])) : ph \in 1..3}
        extracted == UNION {{Key(langOf[f], p) : p \in of(f)} : f \in Range(files)}
    IN /\ DOMAIN cache \subseteq extracted
       /\ \A c \in summary : c.count = "cached" =>
             c.value = Cardinality(DOMAIN cache \cap extracted)

\* C16: every batch the loop cuts has at least one phrase and at most the
\* script's maximum number of phrases, and, unless it is a single phrase,
\* its joined string is no longer than the script's character limit.
C16_BatchWithinLimits ==
    i > 1 => /\ Len(chunk) >= 1
             /\ Len(chunk) <= MaxItems(script)
             /\ Len(chunk) > 1 => TextLen(join(sep(script), chunk)) <= MaxChars(script)

\* C16 witness: a batch closed by the item limit, with phrases left to send.
C16_Witness ==
    /\ Len(chunk) = MaxItems(script)
    /\ i <= Len(uniq)

\* C17: every batch is the slice of the list that starts where the batch
\* before it ended and has at least one phrase, the loop ends exactly when
\* the list is used up, and a phrase longer than the character limit makes a
\* batch of its own.
C17_BatchesCoverList ==
    [][pc = "chunk"
         => /\ i' > i
            /\ chunk' = SubSeq(uniq, i, i' - 1)
            /\ pc' = "apply" <=> i' = Len(uniq) + 1
            /\ \A k \in i..(i' - 1) :
                  TextLen(uniq[k]) > MaxChars(script) => chunk' = <<uniq[k]>>]_vars

\* C17 witness: the list is used up, it had more phrases than one batch
\* takes, and its last batch is a single phrase over the character limit.
C17_Witness ==
    /\ pc = "apply"
    /\ i = Len(uniq) + 1
    /\ Len(uniq) > MaxItems(script)
    /\ Len(chunk) = 1
    /\ TextLen(chunk[1]) > MaxChars(script)

\* An upper bound on the steps batch translation still has to take: the
\* phrases not yet cut into a batch, the call or request for the batch, the
\* phrases the fallback loop still has to submit, and the attempts left in
\* the current call.
C18_StepsLeft ==
    LET attempts == MaxAttempts(script)
        perPhrase == attempts + 3
        perCut == 2 * attempts + 5
        rest == (Len(uniq) + 1 - i) * perCut
        loop == (Len(chunk) - j) * perPhrase
    IN CASE script = "index_cards" -> 0
         [] pc = "chunk" -> rest
         [] pc = "request" -> rest + Len(chunk) * perPhrase + 1
         [] pc = "tg" /\ tg.ctx = "batch" ->
              rest + Len(chunk) * perPhrase + 1 + (attempts - tg.attempt)
         [] pc = "ret" /\ tg.ctx = "batch" -> rest + Len(chunk) * perPhrase + 1
         [] pc = "fallback" -> rest + loop + perPhrase
         [] pc = "tg" /\ tg.ctx = "indiv" -> rest + loop + 2 + (attempts - tg.attempt)
         [] pc = "ret" /\ tg.ctx = "indiv" -> rest + loop + 1
         [] OTHER -> 0

\* C18: whatever the service answers, batch translation ends: every cut of
\* a batch moves the cursor forward by at least one phrase, a batch is
\* submitted only right after it was cut (so a phrase is in one submitted
\* batch), the fallback loop submits the phrases of the batch one after the
\* other, each once, and every step of batch translation lowers a bound on
\* the steps that are left, which is positive until the last batch is done.
C18_BatchTranslationEnds ==
    [][/\ pc = "chunk" => (i' > i /\ i' <= Len(uniq) + 1)
       /\ (pc' = "request" \/ (tg'.ctx = "batch" /\ tg.ctx # "batch")) => pc = "chunk"
       /\ Len(indiv') > Len(indiv)
             => (Len(indiv') = Len(indiv) + 1 /\ indiv' = SubSeq(chunk, 1, Len(indiv')))
       /\ (script # "index_cards" /\ pc \in {"chunk", "request", "tg", "ret", "fallback"})
             => (C18_StepsLeft > 0 /\ C18_StepsLeft' < C18_StepsLeft /\ C18_StepsLeft' >= 0)
      ]_vars

\* C18 witness: a list of two batches has been worked off, the second batch
\* through the fallback loop.
C18_Witness ==
    /\ pc = "apply"
    /\ Len(uniq) = 2
    /\ Len(chunk) = 1
    /\ indiv = chunk

\* C19: when batch translation is called with no phrase, or (in a script
\* that keeps a cache) with phrases that all have a cache entry for the
\* language, it sends nothing and the cache stays as it is: the call is over
\* in the step that starts it, with no batch cut and no request made.
C19_NothingToSendNoRequest ==
    [][(/\ pc = "file"
        /\ script # "index_cards"
        /\ \A p \in Range(phrases(script, phase, soup)) :
              RunCache(script) /\ Key(lang, p) \in DOMAIN cache)
         => /\ pc' \in {"apply", "commit"}
            /\ uniq' = <<>>
            /\ lastReq' = {}
            /\ tg' = tg
            /\ cache' = (IF RunCache(script) THEN cache ELSE NoCache)]_vars

\* C19 witness: batch translation has just been called with phrases that
\* were all cached while an earlier file was processed.
C19_Witness ==
    /\ pc = "apply"
    /\ fidx = 2
    /\ RunCache(script)
    /\ uniq = <<>>
    /\ phrases(script, phase, soup) # <<>>
    /\ tg = NoCall
    /\ \A p \in Range(phrases(script, phase, soup)) : Key(lang, p) \in DOMAIN cache

\* C20: a request to the translation endpoint is never sent while the run
\* has not slept since the request before it: in every state whose next step
\* is a request (an attempt of translate_google, a batch request, a bare
\* fallback request), either no request was sent yet or a sleep followed the
\* last one.
C20_SleepBetweenRequests ==
    (\/ pc = "tg"
     \/ pc = "request"
     \/ pc = "fallback" /\ script \in {"batch_visible", "sync_source"})
        => pace # "requested"

\* Reading the body of a literal quoted with q as a script engine does: a
\* backslash takes the next character with it, \n is a line break, and a
\* bare quote q or a bare line break ends the literal early (not ok).
RECURSIVE C21_Read(_, _)
C21_Read(body, q) ==
    IF body = <<>> THEN [ok |-> TRUE, text |-> <<>>]
    ELSE IF Head(body) = "\\"
    THEN IF Len(body) < 2 THEN [ok |-> FALSE, text |-> <<>>]
         ELSE LET r == C21_Read(SubSeq(body, 3, Len(body)), q)
              IN [ok |-> r.ok, text |-> <<body[2]>> \o r.text]
    ELSE IF Head(body) \in {q, "NL"} THEN [ok |-> FALSE, text |-> <<>>]
    ELSE LET r == C21_Read(Tail(body), q)
         IN [ok |-> r.ok,
             text |-> <<IF Head(body) = "\\n" THEN "NL" ELSE Head(body)>> \o r.text]

\* C21: a script literal that is replaced keeps its quote character, and
\* its new body is one well-formed literal body (every backslash and quote
\* escaped, no bare line break) that reads back as the stored translation.
C21_LiteralWellFormed ==
    [][pc = "apply"
         => \A k \in DOMAIN soup :
               (soup[k].kind = "js" /\ soup'[k] # soup[k])
                  => LET q == soup[k].raw[1]
                         new == soup'[k].raw
                     IN /\ Len(new) >= 2
                        /\ new[1] = q
                        /\ new[Len(new)] = q
                        /\ C21_Read(Body(new), q)
                             = [ok |-> TRUE,
                                text |-> cache[Key(lang, Phrase(script, soup[k]))]]]_vars

\* C22: a quoted string that is the key of an object member (the literal is
\* immediately followed by a colon) is never replaced.
C22_KeysNotReplaced ==
    [][\A k \in DOMAIN soup :
          (/\ soup[k].kind = "js"
           /\ k + 1 \in DOMAIN soup
           /\ soup[k + 1].kind = "code"
           /\ soup[k + 1].raw # <<>>
           /\ Head(soup[k + 1].raw) = ":")
             => soup'[k] = soup[k]]_vars

\* The length of the whitespace run a text starts with, and ends with.
C23_LeadLen(raw) ==
    CHOOSE n \in 0..Len(raw) :
        /\ \A m \in 1..n : IsWs(raw[m])
        /\ (n = Len(raw) \/ ~IsWs(raw[n + 1]))

C23_TrailLen(raw) ==
    CHOOSE n \in 0..Len(raw) :
        /\ \A m \in (Len(raw) - n + 1)..Len(raw) : IsWs(raw[m])
        /\ (n = Len(raw) \/ ~IsWs(raw[Len(raw) - n]))

\* C23: a text node that is replaced becomes its own leading whitespace,
\* then the translation stored for its phrase, then its own trailing
\* whitespace, both runs unchanged.
C23_WhitespaceKept ==
    [][pc = "apply"
         => \A k \in DOMAIN soup :
               (soup[k].kind = "text" /\ soup'[k] # soup[k])
                  => LET old == soup[k].raw
                         new == soup'[k].raw
                         a == C23_LeadLen(old)
                         z == C23_TrailLen(old)
                         tr == cache[Key(lang, normalize(script, old))]
                     IN /\ soup'[k].kind = "text"
                        /\ Len(new) = a + Len(tr) + z
                        /\ SubSeq(new, 1, a) = SubSeq(old, 1, a)
                        /\ SubSeq(new, a + 1, a + Len(tr)) = tr
                        /\ SubSeq(new, Len(new) - z + 1, Len(new))
                             = SubSeq(old, Len(old) - z + 1, Len(old))]_vars

\* A node with a space on either side has been replaced by its translation
\* inside the same two spaces.
C23_Witness ==
    /\ pc = "commit"
    /\ \E k \in DOMAIN soup :
          /\ k \in DOMAIN disk[cur]
          /\ disk[cur][k] = tA
          /\ soup[k] = Node("text", <<"SP", "x", "SP">>)

\* A text in another script than Latin: it has letters, none of them English.
C24_NonLatin(t) ==
    /\ \E k \in 1..Len(t) : t[k] = "x"
    /\ \A k \in 1..Len(t) : t[k] \notin EnglishWords

\* Every phrase the run collected from the current file has a stored
\* translation in another script than Latin.
C24_AllTranslated ==
    \A ph \in 1..LastPhase(script, include_scripts) :
       \A k \in DOMAIN disk[cur] :
          IsTarget(script, ph, disk[cur][k])
             => LET key == Key(lang, Phrase(script, disk[cur][k]))
                IN key \in DOMAIN cache /\ C24_NonLatin(cache[key])

\* C24: when every phrase of a file was translated into non-Latin text, the
\* rewritten document holds no phrase a second run would collect, so the
\* second run sends nothing and changes nothing.
C24_SecondRunFindsNothing ==
    (pc = "commit" /\ script # "index_cards" /\ C24_AllTranslated)
       => \A ph \in 1..LastPhase(script, include_scripts) :
             BatchInput(script, ph, soup) = <<>>

\* A file with several phrases, all translated, has been rewritten.
C24_Witness ==
    /\ pc = "commit"
    /\ script \in {"complete_existing", "complete_arabic"}
    /\ C24_AllTranslated
    /\ file_changes >= 2
    /\ soup # disk[cur]

\* Outside string literals, some truth key is followed by a colon and, after
\* any whitespace, by something else than true or false.
C25_NonBooleanTruth(text) ==
    \E p, c, v \in 1..(Len(text) + 1) :
       /\ p < c /\ c < v /\ c <= Len(text)
       /\ text[p] = "truth"
       /\ (p = 1 \/ \E b \in 1..(p - 1) :
                       /\ text[b] \in {",", "{"}
                       /\ \A m \in (b + 1)..(p - 1) : text[m] \in {"SP", "NL", "STR"})
       /\ \A m \in (p + 1)..(c - 1) : text[m] \in {"SP", "NL", "STR"}
       /\ text[c] = ":"
       /\ \A m \in (c + 1)..(v - 1) : text[m] \in {"SP", "NL", "STR"}
       /\ (v = Len(text) + 1 \/ text[v] \notin {"SP", "NL", "STR", "true", "false"})

\* C25: the guard reports the non-boolean-truth signature exactly when some
\* truth key outside string literals has a value other than true or false,
\* and exactly when the linter reports it.
C25_TruthSignatureExact ==
    [][(pc = "commit" /\ ShouldWrite(file_changes, dry_run)
          /\ GuardRuns(script, include_scripts, skip_guard))
         => LET reported == \E m \in out' \ out :
                               m.tag = "GUARD" /\ "truth" \in Range(m.text)
            IN /\ reported <=> \E k \in DOMAIN soup :
                                  /\ soup[k].kind = "code"
                                  /\ C25_NonBooleanTruth(soup[k].raw)
               /\ reported <=> lint_file(soup)]_vars

\* The file's one location holds a single camelCase identifier.
C26_OneIdentifier == Len(soup) = 1 /\ Phrase(script, soup[1]) = <<"ID">>

\* C26 as stated: no classifier takes a single camelCase identifier without
\* stop words for a phrase to translate, so no script collects it.
C26_IdentifierNeverCollected ==
    [][(pc = "file" /\ C26_OneIdentifier) => uniq' = <<>>]_vars

\* C26 as the code has it: the identifier is left out by the function-word
\* classifiers (is_english_like of complete_existing and batch_visible) and
\* by is_translatable_js_string, and is collected by is_english_like of
\* complete_arabic and by is_english_source_text.
C26_IdentifierCollectedByTwo ==
    [][(pc = "file" /\ C26_OneIdentifier)
         => (uniq' = <<>> <=> script \notin {"complete_arabic", "sync_source"})]_vars

\* The phrases of a file that holds one identifier have been collected, and
\* there are none.
C26_Witness ==
    /\ pc # "file"
    /\ C26_OneIdentifier
    /\ script = "fix_js"
    /\ uniq = <<>>

\* C27: after fix_file has processed a file in a run that is not a dry run,
\* the file's <html> tag holds both lang="ar" and dir="rtl".
C27_ArabicRtlAfterFix ==
    [][(pc = "bulk" /\ ~dry_run)
         => /\ "lang=\"ar\"" \in Range(disk'[cur][1].raw)
            /\ "dir=\"rtl\"" \in Range(disk'[cur][1].raw)]_vars

\* C28: no stored translation is empty, and no location that held a phrase
\* is rewritten to hold nothing but whitespace.
C28_NoEmptyTranslation ==
    [][(\A key \in DOMAIN cache' : cache'[key] # <<>>)
       /\ (pc = "apply"
             => \A k \in DOMAIN soup :
                   soup'[k] # soup[k] => Phrase(script, soup'[k]) # <<>>)]_vars

\* What a dry run does with a file once its locations are rewritten: the
\* file's replacements are printed and added to the total.
C29_CountedAsInDryRun ==
    /\ total_changes' = total_changes + file_changes
    /\ Msg("OK", cur, <<>>) \in out'

C30_AbortLeavesDiskAlone ==
    (pc = "done" /\ selection_errors > 0 /\ processed = <<>>)
        => /\ ~backup_base
           /\ copies = {}
           /\ writes = <<>>
           /\ disk = orig

====
